---- MODULE Spec2Model ----
(***************************************************************************)
(* Model of the UI action resolution and execution engine of agent_b:      *)
(* interactions.py (scope resolution, candidate collection, the oracle     *)
(* round trip, robust_click, the click retry loop, the fill path) and the  *)
(* step loop of navigator.py.                                              *)
(*                                                                         *)
(* Conventions: list indices of the program are 0-based, sequences here    *)
(* are 1-based; a candidate's "index" field and a handle keep the 0-based  *)
(* DOM query position.  Every awaited browser call and every oracle call   *)
(* is an input of the environment that either returns or raises.           *)
(***************************************************************************)
EXTENDS Integers, Sequences, FiniteSets, TLC

\* ------------------------------------------------------------------ bounds
\* Longest exhaustively enumerated DOM query result.
MaxDom == 3
\* Number of steps of the plan.
MaxSteps == 2
\* Largest number of overlay elements found by the scope query.
MaxOverlays == 3
\* z-index values range over -MaxZ..MaxZ.
MaxZ == 3
\* Longest step description, in words, given to the text functions.
MaxWords == 3
\* Largest max_wait_seconds given to _wait_for_login.
MaxWait == 7

\* --------------------------------------------------------- program constants
\* candidates[:80]
PayloadCap == 80
\* for attempt in range(3)
MaxRounds == 3
\* if stable_logged_in >= 5
StableNeeded == 5

\* ------------------------------------------------------------------ helpers
Min(a, b) == IF a <= b THEN a ELSE b

Range(s) == {s[i] : i \in 1..Len(s)}

\* Python slice s[:n]
Take(s, n) == SubSeq(s, 1, Min(n, Len(s)))

\* Python list.index(x), as a 1-based position; x must occur in s
IndexOf(s, x) == CHOOSE i \in 1..Len(s) : s[i] = x /\ \A j \in 1..(i - 1) : s[j] # x

\* ------------------------------------------------------------------ strings
\* A string is a sequence of one-character strings.
UpperChars == <<"A","B","C","D","E","F","G","H","I","J","K","L","M",
                "N","O","P","Q","R","S","T","U","V","W","X","Y","Z">>
LowerChars == <<"a","b","c","d","e","f","g","h","i","j","k","l","m",
                "n","o","p","q","r","s","t","u","v","w","x","y","z">>

\* str.lower() on one character
LowerChar(c) ==
    IF \E i \in 1..Len(UpperChars) : UpperChars[i] = c
    THEN LowerChars[CHOOSE i \in 1..Len(UpperChars) : UpperChars[i] = c]
    ELSE c

\* str.lower()
Lower(s) == [i \in 1..Len(s) |-> LowerChar(s[i])]

\* Python "kw in d" on strings
Contains(d, kw) ==
    \E k \in 0..(Len(d) - Len(kw)) : SubSeq(d, k + 1, k + Len(kw)) = kw

\* The two quote characters of the pattern  '([^']+)'|"([^"]+)"
Quotes == {"'", "\""}

\* Does one alternative of the pattern match at position i: the quote q, one
\* or more characters other than q, the quote q.
QuotedAt(d, i, q) ==
    /\ d[i] = q
    /\ \E k \in (i + 2)..Len(d) :
          d[k] = q /\ \A j \in (i + 1)..(k - 1) : d[j] # q

\* The text between the quote at i and the next quote of its kind.
QuotedText(d, i) ==
    LET k == CHOOSE k \in (i + 1)..Len(d) :
                 d[k] = d[i] /\ \A j \in (i + 1)..(k - 1) : d[j] # d[i]
    IN  SubSeq(d, i + 1, k - 1)

NoneValue == [found |-> FALSE, text |-> <<>>]

\* Variant of extract_value_from_description: a single-quoted text anywhere
\* is preferred to a double-quoted one.
extract_value_single_first(desc) ==
    LET single == {i \in 1..Len(desc) : QuotedAt(desc, i, "'")}
        double == {i \in 1..Len(desc) : QuotedAt(desc, i, "\"")}
        first(S) == CHOOSE i \in S : \A k \in S : i <= k
    IN  IF single # {} THEN [found |-> TRUE, text |-> QuotedText(desc, first(single))]
        ELSE IF double # {} THEN [found |-> TRUE, text |-> QuotedText(desc, first(double))]
        ELSE NoneValue

\* re.search scans the start positions from the left and takes the first at
\* which an alternative matches; m.group(1) or m.group(2) is the text between
\* the quotes; None without a match.
extract_value_from_description(desc) ==
    LET starts == {i \in 1..Len(desc) : \E q \in Quotes : QuotedAt(desc, i, q)}
    IN  IF starts = {} THEN NoneValue
        ELSE [found |-> TRUE,
              text  |-> QuotedText(desc, CHOOSE i \in starts : \A k \in starts : i <= k)]

finalize_keywords ==
    { <<"s","a","v","e">>,
      <<"s","a","v","e","d">>,
      <<"s","u","b","m","i","t">>,
      <<"c","o","n","f","i","r","m">>,
      <<"f","i","n","i","s","h">>,
      <<"d","o","n","e">>,
      <<"c","o","m","p","l","e","t","e">>,
      <<"c","o","m","p","l","e","t","e","d">>,
      <<"c","r","e","a","t","e","d">>,
      <<"a","d","d","e","d">> }

\* Variant of is_finalize_step: the description is not lower-cased.
is_finalize_step_exact_case(desc) ==
    \E kw \in finalize_keywords : Contains(desc, kw)

is_finalize_step(desc) ==
    LET d == Lower(desc) IN \E kw \in finalize_keywords : Contains(d, kw)

\* Step descriptions the planner may hand over.
DescSaveProject == <<"S","a","v","e"," ","p","r","o","j","e","c","t">>
DescCancelEdit  == <<"C","a","n","c","e","l"," ","e","d","i","t">>
DescClickDone   == <<"C","l","i","c","k"," ","D","O","N","E">>

Descriptions == {DescSaveProject, DescCancelEdit, DescClickDone}

\* Step descriptions of fill steps, one for each way through the role chain;
\* the third carries a quoted value.
DescDescriptionName == <<"D","e","s","c","r","i","p","t","i","o","n"," ","n","a","m","e">>
DescAddSummary      == <<"A","d","d"," ","S","U","M","M","A","R","Y">>
DescSetTitle        == <<"S","e","t"," ","t","i","t","l","e"," ","'","Q","3","'">>
DescFillBox         == <<"F","i","l","l"," ","b","o","x">>
FillDescriptions == {DescDescriptionName, DescAddSummary, DescSetTitle, DescFillBox}

ActionTypes == {"navigate", "click", "fill", "wait", "explore"}

\* Variant of Route: fill steps are sent down the click path.
RouteFillAsClick(action_type) ==
    IF action_type \in {"navigate", "click", "fill"} THEN "click_with_llm_only"
    ELSE IF action_type = "wait" THEN "wait_for_timeout"
    ELSE "nothing"

\* The if / elif chain of _execute_step: what is awaited before the capture.
Route(action_type) ==
    IF action_type \in {"navigate", "click"} THEN "click_with_llm_only"
    ELSE IF action_type = "fill" THEN "fill_with_llm"
    ELSE IF action_type = "wait" THEN "wait_for_timeout"
    ELSE "nothing"

\* ---------------------------------------------------------------------- DOM
\* An element returned by a DOM query.  reads_ok: the attribute reads of the
\* collection loop succeed on it; in_save_options: el.closest('.save-options')
\* is non-null; kind: what type_into_element finds when it inspects it.
PlainButton == [reads_ok |-> TRUE,  in_save_options |-> FALSE, kind |-> "button"]
SaveButton  == [reads_ok |-> TRUE,  in_save_options |-> TRUE,  kind |-> "button"]
StaleButton == [reads_ok |-> FALSE, in_save_options |-> FALSE, kind |-> "button"]
ClickEls == {PlainButton, SaveButton, StaleButton}

InputField   == [reads_ok |-> TRUE,  in_save_options |-> FALSE, kind |-> "input"]
TextboxField == [reads_ok |-> TRUE,  in_save_options |-> FALSE, kind |-> "textbox"]
StaleField   == [reads_ok |-> FALSE, in_save_options |-> FALSE, kind |-> "input"]
FillEls == {InputField, TextboxField, StaleField}

\* Query results: every list of at most MaxDom elements, and lists one longer
\* than the payload cap whose last two elements vary.
SmallDoms(Els) == UNION {[1..n -> Els] : n \in 0..MaxDom}
BigDoms(Els, plain) ==
    { [i \in 1..(PayloadCap + 1) |->
          IF i = PayloadCap THEN a ELSE IF i = PayloadCap + 1 THEN b ELSE plain]
      : a \in Els, b \in Els }

ClickDoms == SmallDoms(ClickEls) \cup BigDoms(ClickEls, PlainButton)
FillDoms  == SmallDoms(FillEls) \cup BigDoms(FillEls, InputField)

\* ------------------------------------------------------ candidate collection
\* enumerate(elements): the pairs (idx, el), idx from 0
Enumerate(elements) == [i \in 1..Len(elements) |-> [idx |-> i - 1, el |-> elements[i]]]

\* zip(candidates, handles)
Zip(cands, hands) ==
    [i \in 1..Min(Len(cands), Len(hands)) |-> [c |-> cands[i], h |-> hands[i]]]

ReadsOk(p) == p.el.reads_ok

\* Variant of CollectClick: index is the position in the candidate list.
CollectClickRenumbered(elements) ==
    LET kept == SelectSeq(Enumerate(elements), ReadsOk) IN
    [candidates |-> [j \in 1..Len(kept) |->
                        [index |-> j - 1,
                         in_save_options |-> kept[j].el.in_save_options]],
     handles    |-> [j \in 1..Len(kept) |-> kept[j].idx]]

\* The loop "for idx, el in enumerate(elements)" of click_with_llm_only: an
\* element whose reads raise is skipped (continue), the others are appended to
\* candidates and to handles, with index = idx.  A handle is written as the
\* query position of its element.
CollectClick(elements) ==
    LET kept == SelectSeq(Enumerate(elements), ReadsOk) IN
    [candidates |-> [j \in 1..Len(kept) |->
                        [index |-> kept[j].idx,
                         in_save_options |-> kept[j].el.in_save_options]],
     handles    |-> [j \in 1..Len(kept) |-> kept[j].idx]]

\* Variant of CollectFill: the first element whose reads raise ends the loop.
CollectFillUntilFailure(elements) ==
    LET bad  == {i \in 1..Len(elements) : ~elements[i].reads_ok}
        n    == IF bad = {} THEN Len(elements)
                ELSE (CHOOSE i \in bad : \A k \in bad : i <= k) - 1
    IN  [candidates |-> [j \in 1..n |-> [index |-> j - 1, tag |-> elements[j].kind]],
         handles    |-> [j \in 1..n |-> j - 1]]

\* The same loop of fill_with_llm.
CollectFill(elements) ==
    LET kept == SelectSeq(Enumerate(elements), ReadsOk) IN
    [candidates |-> [j \in 1..Len(kept) |->
                        [index |-> kept[j].idx, tag |-> kept[j].el.kind]],
     handles    |-> [j \in 1..Len(kept) |-> kept[j].idx]]

InSaveOptions(p) == p.c.in_save_options

\* Variant of FilterSaveOptions: the candidates are filtered, the handles are
\* cut to the same length from the front.
FilterSaveOptionsCandidatesOnly(cands, hands) ==
    LET kept == SelectSeq(Zip(cands, hands), InSaveOptions) IN
    [candidates |-> [j \in 1..Len(kept) |-> kept[j].c],
     handles    |-> [j \in 1..Len(kept) |-> hands[j]]]

\* for c, h in zip(candidates, handles): keep the pairs with in_save_options
FilterSaveOptions(cands, hands) ==
    LET kept == SelectSeq(Zip(cands, hands), InSaveOptions) IN
    [candidates |-> [j \in 1..Len(kept) |-> kept[j].c],
     handles    |-> [j \in 1..Len(kept) |-> kept[j].h]]

\* Variant of NarrowForFinalize: narrows whatever the step description is.
NarrowAlways(cands, hands, desc) ==
    LET f == [candidates |-> SelectSeq(cands, LAMBDA c : c.in_save_options),
              handles    |-> [j \in 1..Len(SelectSeq(Zip(cands, hands),
                                                     LAMBDA p : p.c.in_save_options))
                               |-> SelectSeq(Zip(cands, hands),
                                             LAMBDA p : p.c.in_save_options)[j].h]]
    IN  IF f.candidates # <<>> THEN f
        ELSE [candidates |-> cands, handles |-> hands]

\* if finalize: ... if filtered_candidates: candidates, handles = filtered
NarrowForFinalize(cands, hands, desc) ==
    IF is_finalize_step(desc)
    THEN LET f == FilterSaveOptions(cands, hands)
         IN  IF f.candidates # <<>> THEN f
             ELSE [candidates |-> cands, handles |-> hands]
    ELSE [candidates |-> cands, handles |-> hands]

\* indices = [c["index"] for c in candidates]
Indices(cands) == [i \in 1..Len(cands) |-> cands[i].index]

\* ------------------------------------------------------------- the oracle
\* What client.chat.completions.create and the parse make of one request:
\*   call_failed  the call raises
\*   not_json     json.loads raises
\*   not_object   json.loads returns a non-object, data.get raises
\*   no_index     an object without "chosen_index"
\*   index        an object with "chosen_index"
\* value is the "value" of a fill answer: vtype says what JSON value it is,
\*   missing   the object has no "value"
\*   null      null
\*   zero      a non-string that is falsy in Python (0, false, [], {})
\*   number    a non-string that is truthy
\*   string    a string, whose characters are text
\* Indices the oracle may answer: small ones, and the index of the first
\* candidate beyond the payload cap.
ChoiceSet == (0..(MaxDom - 1)) \cup {PayloadCap}
ResponseKinds == {"call_failed", "not_json", "not_object", "no_index", "index"}
MissingValue == [vtype |-> "missing", text |-> <<>>]
StringValue(t) == [vtype |-> "string", text |-> t]
OracleTexts == {<<>>, <<" ">>, <<"\t", " ", "\n">>, <<"Q", "3">>, <<" ", "Q", "3", " ">>}
OracleValues ==
    {[vtype |-> t, text |-> <<>>] : t \in {"missing", "null", "zero", "number"}}
    \cup {StringValue(t) : t \in OracleTexts}

ClickResponses ==
    {[kind |-> k, chosen_index |-> 0, value |-> MissingValue]
        : k \in ResponseKinds \ {"index"}}
    \cup {[kind |-> "index", chosen_index |-> i, value |-> MissingValue]
        : i \in ChoiceSet}

FillResponses ==
    {[kind |-> k, chosen_index |-> 0, value |-> MissingValue]
        : k \in {"call_failed", "not_json", "not_object"}}
    \cup {[kind |-> "no_index", chosen_index |-> 0, value |-> v]
        : v \in OracleValues}
    \cup {[kind |-> "index", chosen_index |-> i, value |-> v]
        : i \in ChoiceSet, v \in OracleValues}

\* data = json.loads(raw); chosen = data.get("chosen_index", 0)
ParseChosen(resp) ==
    IF resp.kind \in {"not_json", "not_object"}
    THEN [ok |-> FALSE, chosen |-> 0]
    ELSE IF resp.kind = "no_index"
         THEN [ok |-> TRUE, chosen |-> 0]
         ELSE [ok |-> TRUE, chosen |-> resp.chosen_index]

\* ------------------------------------------------------------ robust_click
\* env: which awaited calls return (TRUE) or raise (FALSE):
\*   click, wait1   el.click() and page.wait_for_timeout(1000)
\*   force, wait2   el.click(force=True) and page.wait_for_timeout(1000)
\*   js, wait3      el.evaluate(...) of dispatch_js_click, wait_for_timeout(1500)
ClickEnvs == [click : BOOLEAN, wait1 : BOOLEAN, force : BOOLEAN,
              wait2 : BOOLEAN, js : BOOLEAN, wait3 : BOOLEAN]

dispatch_js_click(env) == env.js

\* result: "true" / "false" as returned, "raise" when an exception leaves
\* robust_click; attempted: the tiers whose click action was started;
\* delivered: the tiers whose click action returned.
robust_click(env) ==
    IF env.click /\ env.wait1
    THEN [result |-> "true", attempted |-> <<1>>, delivered |-> <<1>>]
    ELSE LET d1 == IF env.click THEN <<1>> ELSE <<>> IN
         IF env.force /\ env.wait2
         THEN [result |-> "true", attempted |-> <<1, 2>>, delivered |-> d1 \o <<2>>]
         ELSE LET d2 == IF env.force THEN d1 \o <<2>> ELSE d1 IN
              IF dispatch_js_click(env)
              THEN [result    |-> IF env.wait3 THEN "true" ELSE "raise",
                    attempted |-> <<1, 2, 3>>,
                    delivered |-> d2 \o <<3>>]
              ELSE [result |-> "false", attempted |-> <<1, 2, 3>>, delivered |-> d2]

\* What one call of robust_click can do.
ClickOutcomes == {robust_click(env) : env \in ClickEnvs}

\* ------------------------------------------------------- type_into_element
\* env: which awaited calls return (TRUE) or raise (FALSE):
\*   reads     the tag / contenteditable / role reads
\*   focus     el.click(timeout=2000)
\*   set_text  el.evaluate(node.innerText = value)
\*   fill_type el.fill("") followed by el.type(value)
\*   set_value el.evaluate(node.value = value; input and change events)
\*   keyboard  page.keyboard.type(value)
TypeEnvs == [reads : BOOLEAN, focus : BOOLEAN, set_text : BOOLEAN,
             fill_type : BOOLEAN, set_value : BOOLEAN, keyboard : BOOLEAN]

\* What an element handed to type_into_element can be:
\*   textbox        content-editable or role textbox, not an input/textarea
\*   input          an input/textarea without the textbox role
\*   input_textbox  an input/textarea that carries role="textbox"
\*   other          none of these
ElementKinds == {"textbox", "input", "input_textbox", "other"}

\* Variant of type_into_element: a tier that raised ends the call.
type_into_element_exclusive(kind, env) ==
    LET is_textbox == env.reads /\ kind \in {"textbox", "input_textbox"}
        is_input   == env.reads /\ kind \in {"input", "input_textbox"}
    IN  IF is_textbox
        THEN [tried |-> <<"set_text">>,
              wrote |-> IF env.set_text THEN "set_text" ELSE "none"]
        ELSE IF is_input
             THEN IF env.fill_type
                  THEN [tried |-> <<"fill_type">>, wrote |-> "fill_type"]
                  ELSE [tried |-> <<"fill_type", "set_value">>,
                        wrote |-> IF env.set_value THEN "set_value" ELSE "none"]
             ELSE [tried |-> <<"keyboard">>,
                   wrote |-> IF env.keyboard THEN "keyboard" ELSE "none"]

\* tried: the fill tiers started, in order; wrote: the tier that put the text
\* in, "none" when every tier raised.
type_into_element(kind, env) ==
    LET is_textbox == env.reads /\ kind \in {"textbox", "input_textbox"}
        is_input   == env.reads /\ kind \in {"input", "input_textbox"}
        t1 == IF is_textbox THEN <<"set_text">> ELSE <<>>
    IN  IF is_textbox /\ env.set_text
        THEN [tried |-> t1, wrote |-> "set_text"]
        ELSE IF is_input /\ env.fill_type
             THEN [tried |-> t1 \o <<"fill_type">>, wrote |-> "fill_type"]
             ELSE IF is_input /\ env.set_value
                  THEN [tried |-> t1 \o <<"fill_type", "set_value">>,
                        wrote |-> "set_value"]
                  ELSE LET t2 == IF is_input
                                 THEN t1 \o <<"fill_type", "set_value">>
                                 ELSE t1
                       IN  [tried |-> t2 \o <<"keyboard">>,
                            wrote |-> IF env.keyboard THEN "keyboard" ELSE "none"]

\* What type_into_element can do on an element of a kind.
TypeOutcomes(kind) == {type_into_element(kind, env) : env \in TypeEnvs}

\* --------------------------------------------------------- fill: role, value
KwDescription == <<"d","e","s","c","r","i","p","t","i","o","n">>
KwSummary     == <<"s","u","m","m","a","r","y">>
KwName        == <<"n","a","m","e">>
KwTitle       == <<"t","i","t","l","e">>

\* Variant of TargetRole: the description is not lower-cased.
TargetRoleCaseSensitive(desc) ==
    IF Contains(desc, KwDescription) THEN "description"
    ELSE IF Contains(desc, KwSummary) THEN "summary"
    ELSE IF Contains(desc, KwName) \/ Contains(desc, KwTitle) THEN "name"
    ELSE "generic"

\* the if / elif chain on desc_lower
TargetRole(desc) ==
    LET desc_lower == Lower(desc) IN
    IF Contains(desc_lower, KwDescription) THEN "description"
    ELSE IF Contains(desc_lower, KwSummary) THEN "summary"
    ELSE IF Contains(desc_lower, KwName) \/ Contains(desc_lower, KwTitle) THEN "name"
    ELSE "generic"

DefaultDescription ==
    <<"T","h","i","s"," ","i","s"," ","a","n"," ","a","u","t","o","-","g","e",
      "n","e","r","a","t","e","d"," ","d","e","s","c","r","i","p","t","i","o",
      "n"," ","f","o","r"," ","t","h","i","s"," ","i","t","e","m",".">>
DefaultSummary ==
    <<"T","h","i","s"," ","i","s"," ","a","n"," ","a","u","t","o","-","g","e",
      "n","e","r","a","t","e","d"," ","s","u","m","m","a","r","y"," ","f","o",
      "r"," ","t","h","i","s"," ","i","t","e","m",".">>
DefaultName ==
    <<"S","a","m","p","l","e"," ","P","r","o","j","e","c","t">>

default_value_for_role(role) ==
    IF role = "description" THEN DefaultDescription
    ELSE IF role = "summary" THEN DefaultSummary
    ELSE IF role = "name" THEN DefaultName
    ELSE DefaultName

\* The characters str.strip() removes (the ASCII ones).
Whitespace == {" ", "\t", "\n", "\r", "\f"}

\* value.strip()
Strip(str) ==
    LET keep == {i \in 1..Len(str) : str[i] \notin Whitespace}
    IN  IF keep = {} THEN <<>>
        ELSE SubSeq(str, CHOOSE i \in keep : \A k \in keep : i <= k,
                         CHOOSE i \in keep : \A k \in keep : i >= k)

\* data.get("value", "") or "": a missing or falsy value becomes "".
ValueOrEmpty(v) ==
    IF v.vtype \in {"missing", "null", "zero"} THEN StringValue(<<>>) ELSE v

\* Variant of FillValue: only the empty string is replaced.
FillValueEmptyOnly(v, role) ==
    LET got == ValueOrEmpty(v) IN
    IF got.vtype # "string" \/ got.text = <<>>
    THEN default_value_for_role(role)
    ELSE got.text

\* value = data.get("value", "") or ""; a non-string or blank value is
\* replaced by the role default.
FillValue(v, role) ==
    LET got == ValueOrEmpty(v) IN
    IF got.vtype # "string" \/ Strip(got.text) = <<>>
    THEN default_value_for_role(role)
    ELSE got.text

\* ---------------------------------------------------- get_active_scope_root
\* An overlay found by the query: the z-index read returns z, or raises.
OverlayReads ==
    {[read_ok |-> TRUE, z |-> v] : v \in (-MaxZ)..MaxZ}
    \cup {[read_ok |-> FALSE, z |-> 0]}

OverlayLists == UNION {[1..n -> OverlayReads] : n \in 0..MaxOverlays}

\* z of one node as the loop sees it: 0 when the read raises
ZOf(node) == IF node.read_ok THEN node.z ELSE 0

\* The loop over the first n nodes.  max_el is the position (from 1) of the
\* element held, 0 for None.
RECURSIVE ScopeLoop(_, _)
ScopeLoop(ns, n) ==
    IF n = 0 THEN [max_el |-> 0, max_z |-> -1]
    ELSE LET prev == ScopeLoop(ns, n - 1)
             z    == ZOf(ns[n])
         IN  IF z >= prev.max_z
             THEN [max_el |-> n, max_z |-> z]
             ELSE prev

\* Variant of get_active_scope_root without its two try blocks: a raising
\* query or z-index read leaves the function, written -1.
get_active_scope_root_unguarded(query_ok, found) ==
    IF ~query_ok \/ \E j \in 1..Len(found) : ~found[j].read_ok THEN -1
    ELSE IF found = <<>> THEN 0
    ELSE LET r == ScopeLoop(found, Len(found))
         IN  IF r.max_el # 0 THEN r.max_el ELSE Len(found)

\* Position (from 1) of the returned overlay, 0 when None is returned.
\* query_ok = FALSE: page.query_selector_all raises and nodes becomes [].
get_active_scope_root(query_ok, found) ==
    LET ns == IF query_ok THEN found ELSE <<>> IN
    IF ns = <<>> THEN 0
    ELSE LET r == ScopeLoop(ns, Len(ns))
         IN  IF r.max_el # 0 THEN r.max_el ELSE Len(ns)

\* -------------------------------------------------------------------- state
VARIABLES
    nSteps,            \* len(steps) of run_plan
    stepNo,            \* number of steps whose _execute_step has returned
    step,              \* the Step being executed
    pc,                \* position of the run: plan, decide, execute, fill_decide,
                       \* fill_type, capture, finished, aborted
    dom,               \* elements: the result of the step's DOM query
    collected,         \* candidates as collected, before finalize narrowing
    candidates,        \* candidates
    handles,           \* handles
    excluded_indices,  \* excluded_indices
    attempt,           \* attempt of the retry loop
    chosen,            \* chosen
    value,             \* value (fill)
    payload,           \* the payload of the last oracle request
    lastResp,          \* the oracle's answer to it
    oracleCalls,       \* chat.completions.create calls in this step
    clickCalls,        \* robust_click calls in this step
    clickedEls,        \* the handles passed to robust_click in this step
    lastClick,         \* result and target of the last robust_click; in
                       \* ClickSpec also the tiers it went through
    typed,             \* the type_into_element calls of this step
    log,               \* the last message printed by the step
    returned,          \* what the step function handed to _execute_step:
                       \* pending, None, raised
    nodes,             \* overlays found by get_active_scope_root's query
    nodesQueryOk,      \* whether that query returns
    scopeRoot,         \* what get_active_scope_root returned
    scopePc,           \* idle, ready, done
    clickEnv,          \* what the awaited calls of one robust_click call do
    clickPc,           \* idle, ready, done
    typeKind,          \* the kind of the element given to type_into_element
    typeEnv,           \* what the awaited calls of one type_into_element do
    typePc,            \* idle, ready, done
    qPage,             \* the page's elements matching the step's selectors, in
                       \* document order: for each the overlay it lies in, 0
                       \* when it lies in none
    qRoot,             \* root: the overlay get_active_scope_root returned, 0
                       \* for None
    qEnv,              \* which of the two query_selector_all calls return
    qResult,           \* elements, as positions in qPage, or the exception
    qPc,               \* idle, ready, done
    txtDesc,           \* the step description given to a text function
    txtOut,            \* what the function returned
    txtPc,             \* idle, ready, done
    max_wait_seconds,  \* max_wait_seconds of _wait_for_login
    loginI,            \* i of its loop: the iterations started so far
    stable_logged_in,  \* stable_logged_in
    polls,             \* what each _looks_logged_in call did: yes, no, raise
    loginPc            \* idle, loop, logged_in, timed_out, raised

vars == <<nSteps, stepNo, step, pc, dom, collected, candidates, handles,
          excluded_indices, attempt, chosen, value, payload, lastResp,
          oracleCalls, clickCalls, clickedEls, lastClick, typed, log,
          returned,
          nodes, nodesQueryOk, scopeRoot, scopePc, clickEnv, clickPc,
          typeKind, typeEnv, typePc, qPage, qRoot, qEnv, qResult, qPc,
          txtDesc, txtOut, txtPc,
          max_wait_seconds, loginI, stable_logged_in, polls, loginPc>>

stepVars == <<dom, collected, candidates, handles, excluded_indices, attempt,
              chosen, value, payload, lastResp, oracleCalls, clickCalls,
              clickedEls, lastClick, typed, log, returned>>

textVars == <<txtDesc, txtOut, txtPc>>

scopeVars == <<nodes, nodesQueryOk, scopeRoot, scopePc, clickEnv, clickPc,
               typeKind, typeEnv, typePc, qPage, qRoot, qEnv, qResult, qPc,
               txtDesc, txtOut, txtPc,
               max_wait_seconds, loginI, stable_logged_in, polls, loginPc>>

loginVars == <<max_wait_seconds, loginI, stable_logged_in, polls, loginPc>>

\* _wait_for_login is not under study.
LoginIdle ==
    /\ max_wait_seconds = 0 /\ loginI = 0 /\ stable_logged_in = 0
    /\ polls = <<>> /\ loginPc = "idle"

\* The text functions are not under study.
TextIdle == txtDesc = <<>> /\ txtOut = "none" /\ txtPc = "idle"

NoQuery == [ok |-> TRUE, elements |-> <<>>]

\* The element query is not under study.
QueryIdle ==
    /\ qPage = <<>> /\ qRoot = 0 /\ qEnv = [root_ok |-> TRUE, page_ok |-> TRUE]
    /\ qResult = NoQuery /\ qPc = "idle"

AllTypeReturn == [reads |-> TRUE, focus |-> TRUE, set_text |-> TRUE,
                  fill_type |-> TRUE, set_value |-> TRUE, keyboard |-> TRUE]

\* type_into_element is not under study.
TypeIdle == typeKind = "other" /\ typeEnv = AllTypeReturn /\ typePc = "idle"

AllReturn == [click |-> TRUE, wait1 |-> TRUE, force |-> TRUE,
              wait2 |-> TRUE, js |-> TRUE, wait3 |-> TRUE]

NoStep    == [action_type |-> "none", description |-> <<>>]
NoPayload == [excluded_indices |-> <<>>, candidates |-> <<>>]
NoResp    == [kind |-> "none", chosen_index |-> 0, value |-> MissingValue]
NoClick   == [result |-> "none", attempted |-> <<>>, delivered |-> <<>>, el |-> -1]

\* The locals of a step function at its entry.
FreshStep ==
    /\ dom = <<>> /\ collected = <<>> /\ candidates = <<>> /\ handles = <<>>
    /\ excluded_indices = <<>> /\ attempt = 0 /\ chosen = -1 /\ value = <<>>
    /\ payload = NoPayload /\ lastResp = NoResp
    /\ oracleCalls = 0 /\ clickCalls = 0 /\ clickedEls = <<>>
    /\ lastClick = NoClick /\ typed = <<>> /\ log = "none"
    /\ returned = "pending"

Init ==
    /\ nSteps = MaxSteps
    /\ stepNo = 0
    /\ step = NoStep
    /\ pc = "plan"
    /\ FreshStep
    /\ nodes = <<>> /\ nodesQueryOk = TRUE /\ scopeRoot = 0 /\ scopePc = "idle"
    /\ clickEnv = AllReturn /\ clickPc = "idle"
    /\ TypeIdle
    /\ QueryIdle
    /\ TextIdle
    /\ LoginIdle

\* What _execute_step gets from the step function once the step is at
\* next_pc: every return statement of click_with_llm_only and fill_with_llm
\* is a bare return or "return None"; an exception is raised; or the function
\* is still running.
StepReturn(next_pc) ==
    IF next_pc = "capture" THEN "None"
    ELSE IF next_pc = "aborted" THEN "raised"
    ELSE "pending"

\* ------------------------------------------------------- the click retry loop
\* Variant of NextRoundExists: the loop bound off by one.
NextRoundExistsOffByOne(a) == a + 1 <= MaxRounds

\* for attempt in range(3): is there a round after round a failed?
NextRoundExists(a) == a + 1 < MaxRounds

\* Variant of ValidateChoice: the exclusion check is missing.
ValidateChoiceNoExclusion(c, cands, excluded) ==
    IF c \notin Range(Indices(cands)) THEN "not_in_candidates" ELSE "ok"

\* Variant of ValidateChoice: a range check in place of the membership check.
ValidateChoiceRangeOnly(c, cands, excluded) ==
    IF c < 0 \/ c > cands[Len(cands)].index THEN "not_in_candidates"
    ELSE IF c \in Range(excluded) THEN "excluded"
    ELSE "ok"

\* The two checks on chosen of one round.
ValidateChoice(c, cands, excluded) ==
    IF c \notin Range(Indices(cands)) THEN "not_in_candidates"
    ELSE IF c \in Range(excluded) THEN "excluded"
    ELSE "ok"

\* Variant of ExcludeFailed: the list is replaced, not extended.
ExcludeFailedOnlyLast(excluded, c) == <<c>>

\* Variant of AfterClick: the loop goes on after a successful click too.
AfterClickKeepsLooping(success, a) ==
    IF NextRoundExists(a) THEN "decide" ELSE "capture"

\* Where the loop goes when robust_click has returned in round a: "return
\* None" after a success, "continue" after a failure, which leaves the loop
\* after the last round.
AfterClick(success, a) ==
    IF success THEN "capture"
    ELSE IF NextRoundExists(a) THEN "decide" ELSE "capture"

\* Variant of ExcludeFailed: a failed round excludes nothing.
ExcludeFailedNothing(excluded, c) == excluded

\* The list a failed round leaves in excluded_indices.
ExcludeFailed(excluded, c) == Append(excluded, c)

\* Variant of NoCandidates: the check is missing.
NoCandidatesUnchecked(cands) == FALSE

\* if not candidates: return
NoCandidates(cands) == cands = <<>>

\* Variant of Transmitted: the list is sent whole.
TransmittedAll(cands) == cands

\* "candidates": candidates[:80]
Transmitted(cands) == Take(cands, PayloadCap)

\* _execute_step for navigate / click, and click_with_llm_only up to the loop:
\* query, collection, get_client, finalize narrowing.
\*   query_ok   the scope and element queries return
\*   client_ok  get_client() returns
StartClickStep ==
    /\ pc = "plan" /\ stepNo < nSteps
    /\ \E t \in ActionTypes, d \in Descriptions, els \in ClickDoms,
          query_ok \in BOOLEAN, client_ok \in BOOLEAN :
        LET c == CollectClick(els)
            f == NarrowForFinalize(c.candidates, c.handles, d)
        IN  /\ Route(t) = "click_with_llm_only"
            /\ step' = [action_type |-> t, description |-> d]
            /\ excluded_indices' = <<>> /\ attempt' = 0 /\ chosen' = -1
            /\ value' = <<>> /\ payload' = NoPayload /\ lastResp' = NoResp
            /\ oracleCalls' = 0 /\ clickCalls' = 0 /\ clickedEls' = <<>>
            /\ lastClick' = NoClick /\ typed' = <<>>
            /\ IF ~query_ok
               THEN /\ dom' = <<>> /\ collected' = <<>>
                    /\ candidates' = <<>> /\ handles' = <<>>
                    /\ log' = "query_failed" /\ pc' = "capture"
               ELSE /\ dom' = els
                    /\ collected' = c.candidates
                    /\ IF NoCandidates(c.candidates)
                       THEN /\ candidates' = <<>> /\ handles' = <<>>
                            /\ log' = "no_candidates" /\ pc' = "capture"
                       ELSE IF ~client_ok
                            THEN /\ candidates' = c.candidates
                                 /\ handles' = c.handles
                                 /\ log' = "none" /\ pc' = "aborted"
                            ELSE /\ candidates' = f.candidates
                                 /\ handles' = f.handles
                                 /\ log' = "none" /\ pc' = "decide"
    /\ returned' = StepReturn(pc')
    /\ UNCHANGED <<nSteps, stepNo>>
    /\ UNCHANGED scopeVars

\* One round up to the two checks on chosen: the request, the parse, the checks.
Decide ==
    /\ pc = "decide"
    /\ \E resp \in ClickResponses :
        LET p == ParseChosen(resp) IN
        /\ payload' = [excluded_indices |-> excluded_indices,
                       candidates |-> Transmitted(candidates)]
        /\ oracleCalls' = oracleCalls + 1
        /\ lastResp' = resp
        /\ IF resp.kind = "call_failed"
           THEN /\ log' = "llm_failed" /\ pc' = "capture" /\ chosen' = chosen
           ELSE IF ~p.ok
                THEN /\ log' = "parse_failed" /\ pc' = "capture" /\ chosen' = chosen
                ELSE /\ chosen' = p.chosen
                     /\ LET v == ValidateChoice(p.chosen, candidates, excluded_indices)
                        IN  IF v = "ok"
                            THEN /\ log' = log /\ pc' = "execute"
                            ELSE /\ log' = v /\ pc' = "capture"
    /\ returned' = StepReturn(pc')
    /\ UNCHANGED <<nSteps, stepNo, step, dom, collected, candidates, handles,
                   excluded_indices, attempt, value, clickCalls, clickedEls,
                   lastClick, typed>>
    /\ UNCHANGED scopeVars

\* The rest of the round: the handle lookup, robust_click, and the loop's end.
Execute ==
    /\ pc = "execute"
    /\ \E res \in {o.result : o \in ClickOutcomes} :
        LET pos == IndexOf(Indices(candidates), chosen)
            el  == handles[pos]
            r   == [result |-> res]
        IN  /\ clickCalls' = clickCalls + 1
            /\ clickedEls' = Append(clickedEls, el)
            /\ lastClick' = [result |-> r.result, attempted |-> <<>>,
                             delivered |-> <<>>, el |-> el]
            /\ IF r.result = "raise"
               THEN /\ pc' = "aborted"
                    /\ UNCHANGED <<excluded_indices, attempt, log>>
               ELSE IF r.result = "false"
                    THEN /\ excluded_indices' = ExcludeFailed(excluded_indices, chosen)
                         /\ attempt' = attempt + 1
                         /\ log' = "click_failed"
                         /\ pc' = AfterClick(FALSE, attempt)
                    ELSE /\ pc' = AfterClick(TRUE, attempt) /\ log' = "clicked"
                         /\ UNCHANGED <<excluded_indices, attempt>>
    /\ returned' = StepReturn(pc')
    /\ UNCHANGED <<nSteps, stepNo, step, dom, collected, candidates, handles,
                   chosen, value, payload, lastResp, oracleCalls, typed>>
    /\ UNCHANGED scopeVars

\* -------------------------------------------------------------- the fill path
\* chosen not in indices (fill has no exclusion list)
ValidateFillChoice(c, cands) ==
    IF c \notin Range(Indices(cands)) THEN "not_in_candidates" ELSE "ok"

\* _execute_step for fill, and fill_with_llm up to get_client.
\*   wait_ok    page.wait_for_timeout(200) returns
StartFillStep ==
    /\ pc = "plan" /\ stepNo < nSteps
    /\ \E t \in ActionTypes, d \in FillDescriptions, els \in FillDoms,
          wait_ok \in BOOLEAN, query_ok \in BOOLEAN, client_ok \in BOOLEAN :
        LET c == CollectFill(els) IN
        /\ Route(t) = "fill_with_llm"
        /\ step' = [action_type |-> t, description |-> d]
        /\ excluded_indices' = <<>> /\ attempt' = 0 /\ chosen' = -1
        /\ value' = <<>> /\ payload' = NoPayload /\ lastResp' = NoResp
        /\ oracleCalls' = 0 /\ clickCalls' = 0 /\ clickedEls' = <<>>
        /\ lastClick' = NoClick /\ typed' = <<>>
        /\ IF ~wait_ok
           THEN /\ dom' = <<>> /\ candidates' = <<>> /\ handles' = <<>>
                /\ collected' = <<>>
                /\ log' = "none" /\ pc' = "aborted"
           ELSE IF ~query_ok
                THEN /\ dom' = <<>> /\ candidates' = <<>> /\ handles' = <<>>
                     /\ collected' = <<>>
                     /\ log' = "query_failed" /\ pc' = "capture"
                ELSE /\ dom' = els
                     /\ collected' = c.candidates
                     /\ candidates' = c.candidates
                     /\ handles' = c.handles
                     /\ IF NoCandidates(c.candidates)
                        THEN log' = "no_candidates" /\ pc' = "capture"
                        ELSE IF ~client_ok
                             THEN log' = "none" /\ pc' = "aborted"
                             ELSE log' = "none" /\ pc' = "fill_decide"
    /\ returned' = StepReturn(pc')
    /\ UNCHANGED <<nSteps, stepNo>>
    /\ UNCHANGED scopeVars

\* The single request of fill_with_llm, the parse, the value default, the check.
FillDecide ==
    /\ pc = "fill_decide"
    /\ \E resp \in FillResponses :
        LET p == ParseChosen(resp) IN
        /\ payload' = [excluded_indices |-> <<>>,
                       candidates |-> Transmitted(candidates),
                       explicit_value |->
                           extract_value_from_description(step.description)]
        /\ oracleCalls' = oracleCalls + 1
        /\ lastResp' = resp
        /\ IF resp.kind = "call_failed"
           THEN /\ log' = "llm_failed" /\ pc' = "capture"
                /\ UNCHANGED <<chosen, value>>
           ELSE IF ~p.ok
                THEN /\ log' = "parse_failed" /\ pc' = "capture"
                     /\ UNCHANGED <<chosen, value>>
                ELSE /\ chosen' = p.chosen
                     /\ value' = FillValue(resp.value,
                                           TargetRole(step.description))
                     /\ LET v == ValidateFillChoice(p.chosen, candidates)
                        IN  IF v = "ok"
                            THEN /\ log' = log /\ pc' = "fill_type"
                            ELSE /\ log' = v /\ pc' = "capture"
    /\ returned' = StepReturn(pc')
    /\ UNCHANGED <<nSteps, stepNo, step, dom, collected, candidates, handles,
                   excluded_indices, attempt, clickCalls, clickedEls,
                   lastClick, typed>>
    /\ UNCHANGED scopeVars

\* Variant of AfterTyping: a typing that wrote nothing asks the oracle again.
AfterTypingRetry(wrote, wait_ok) ==
    IF wrote = "none" THEN "fill_decide"
    ELSE IF wait_ok THEN "capture" ELSE "aborted"

\* After type_into_element, whatever it did, only wait_for_timeout(300) is
\* left; the function returns, or the wait raises.
AfterTyping(wrote, wait_ok) == IF wait_ok THEN "capture" ELSE "aborted"

\* The handle lookup, type_into_element and the closing wait_for_timeout(300).
FillType ==
    /\ pc = "fill_type"
    /\ \E wait_ok \in BOOLEAN :
      \E r \in TypeOutcomes(dom[handles[IndexOf(Indices(candidates), chosen)] + 1].kind) :
        LET pos == IndexOf(Indices(candidates), chosen)
            el  == handles[pos]
        IN  /\ typed' = Append(typed, [el |-> el, value |-> value,
                                       tried |-> r.tried, wrote |-> r.wrote])
            /\ pc' = AfterTyping(r.wrote, wait_ok)
    /\ returned' = StepReturn(pc')
    /\ UNCHANGED <<nSteps, stepNo, step, dom, collected, candidates, handles,
                   excluded_indices, attempt, chosen, value, payload, lastResp,
                   oracleCalls, clickCalls, clickedEls, lastClick, log>>
    /\ UNCHANGED scopeVars

\* ------------------------------------------------------------ the other steps
ResetStepLocals ==
    /\ dom' = <<>> /\ collected' = <<>> /\ candidates' = <<>> /\ handles' = <<>>
    /\ excluded_indices' = <<>> /\ attempt' = 0 /\ chosen' = -1 /\ value' = <<>>
    /\ payload' = NoPayload /\ lastResp' = NoResp
    /\ oracleCalls' = 0 /\ clickCalls' = 0 /\ clickedEls' = <<>>
    /\ lastClick' = NoClick /\ typed' = <<>> /\ log' = "none"
    /\ returned' = "pending"

\* _execute_step for wait: page.wait_for_timeout(1500)
WaitStep ==
    /\ pc = "plan" /\ stepNo < nSteps
    /\ \E t \in ActionTypes, d \in Descriptions, wait_ok \in BOOLEAN :
        /\ Route(t) = "wait_for_timeout"
        /\ step' = [action_type |-> t, description |-> d]
        /\ pc' = IF wait_ok THEN "capture" ELSE "aborted"
    /\ ResetStepLocals
    /\ UNCHANGED <<nSteps, stepNo>>
    /\ UNCHANGED scopeVars

\* _execute_step for explore: no branch is taken
ExploreStep ==
    /\ pc = "plan" /\ stepNo < nSteps
    /\ \E t \in ActionTypes, d \in Descriptions :
        /\ Route(t) = "nothing"
        /\ step' = [action_type |-> t, description |-> d]
    /\ pc' = "capture"
    /\ ResetStepLocals
    /\ UNCHANGED <<nSteps, stepNo>>
    /\ UNCHANGED scopeVars

\* capturer.capture(...) at the end of _execute_step (it catches what it
\* raises), and the return to the loop of run_plan: the step's locals are gone.
Capture ==
    /\ pc = "capture"
    /\ stepNo' = stepNo + 1
    /\ pc' = "plan"
    /\ step' = NoStep
    /\ ResetStepLocals
    /\ UNCHANGED nSteps
    /\ UNCHANGED scopeVars

\* The loop of run_plan is over: save_metadata, storage_state, close.
Finish ==
    /\ pc = "plan" /\ stepNo = nSteps
    /\ pc' = "finished"
    /\ UNCHANGED <<nSteps, stepNo, step>>
    /\ UNCHANGED stepVars
    /\ UNCHANGED scopeVars

Next ==
    \/ StartClickStep
    \/ Decide
    \/ Execute
    \/ StartFillStep
    \/ FillDecide
    \/ FillType
    \/ WaitStep
    \/ ExploreStep
    \/ Capture
    \/ Finish

Spec == Init /\ [][Next]_vars

\* ------------------------------------------------- scope resolution on its own
\* get_active_scope_root applied to every overlay list within the bounds.
ScopeInit ==
    /\ nSteps = 1 /\ stepNo = 0 /\ step = NoStep /\ pc = "plan"
    /\ FreshStep
    /\ nodes \in OverlayLists
    /\ nodesQueryOk \in BOOLEAN
    /\ scopeRoot = 0
    /\ scopePc = "ready"
    /\ clickEnv = AllReturn /\ clickPc = "idle"
    /\ TypeIdle
    /\ QueryIdle
    /\ TextIdle
    /\ LoginIdle

ResolveScope ==
    /\ scopePc = "ready"
    /\ scopeRoot' = get_active_scope_root(nodesQueryOk, nodes)
    /\ scopePc' = "done"
    /\ UNCHANGED <<nodes, nodesQueryOk, clickEnv, clickPc,
                   typeKind, typeEnv, typePc, qPage, qRoot, qEnv, qResult, qPc>>
    /\ UNCHANGED <<nSteps, stepNo, step, pc>>
    /\ UNCHANGED stepVars
    /\ UNCHANGED textVars
    /\ UNCHANGED loginVars

ScopeNext == ResolveScope

ScopeSpec == ScopeInit /\ [][ScopeNext]_vars

\* ----------------------------------------------------- robust_click on its own
\* One call of robust_click under every pattern of returning and raising calls.
ClickInit ==
    /\ nSteps = 1 /\ stepNo = 0 /\ step = NoStep /\ pc = "plan"
    /\ FreshStep
    /\ nodes = <<>> /\ nodesQueryOk = TRUE /\ scopeRoot = 0 /\ scopePc = "idle"
    /\ clickEnv \in ClickEnvs
    /\ clickPc = "ready"
    /\ TypeIdle
    /\ QueryIdle
    /\ TextIdle
    /\ LoginIdle

CallRobustClick ==
    /\ clickPc = "ready"
    /\ LET r == robust_click(clickEnv)
       IN  lastClick' = [result |-> r.result, attempted |-> r.attempted,
                         delivered |-> r.delivered, el |-> 0]
    /\ clickPc' = "done"
    /\ UNCHANGED <<nSteps, stepNo, step, pc, dom, collected, candidates, handles,
                   excluded_indices, attempt, chosen, value, payload, lastResp,
                   oracleCalls, clickCalls, clickedEls, typed, log, returned>>
    /\ UNCHANGED <<nodes, nodesQueryOk, scopeRoot, scopePc, clickEnv,
                   typeKind, typeEnv, typePc, qPage, qRoot, qEnv, qResult, qPc>>
    /\ UNCHANGED textVars
    /\ UNCHANGED loginVars

ClickNext == CallRobustClick

ClickSpec == ClickInit /\ [][ClickNext]_vars

\* ------------------------------------------------ type_into_element on its own
\* One call of type_into_element on an element of every kind, under every
\* pattern of returning and raising calls.
TypeInit ==
    /\ nSteps = 1 /\ stepNo = 0 /\ step = NoStep /\ pc = "plan"
    /\ FreshStep
    /\ nodes = <<>> /\ nodesQueryOk = TRUE /\ scopeRoot = 0 /\ scopePc = "idle"
    /\ clickEnv = AllReturn /\ clickPc = "idle"
    /\ typeKind \in ElementKinds
    /\ typeEnv \in TypeEnvs
    /\ typePc = "ready"
    /\ QueryIdle
    /\ TextIdle
    /\ LoginIdle

CallTypeIntoElement ==
    /\ typePc = "ready"
    /\ LET r == type_into_element(typeKind, typeEnv)
       IN  typed' = <<[el |-> 0, value |-> value,
                       tried |-> r.tried, wrote |-> r.wrote]>>
    /\ typePc' = "done"
    /\ UNCHANGED <<nSteps, stepNo, step, pc, dom, collected, candidates, handles,
                   excluded_indices, attempt, chosen, value, payload, lastResp,
                   oracleCalls, clickCalls, clickedEls, lastClick, log, returned>>
    /\ UNCHANGED <<nodes, nodesQueryOk, scopeRoot, scopePc, clickEnv, clickPc,
                   typeKind, typeEnv, qPage, qRoot, qEnv, qResult, qPc>>
    /\ UNCHANGED textVars
    /\ UNCHANGED loginVars

TypeNext == CallTypeIntoElement

TypeSpec == TypeInit /\ [][TypeNext]_vars

\* ------------------------------------------------- the element query on its own
\* Pages of up to MaxDom matching elements spread over up to MaxOverlays
\* overlays.
QueryPages == UNION {[1..n -> 0..MaxOverlays] : n \in 0..MaxDom}

QueryEnvs == [root_ok : BOOLEAN, page_ok : BOOLEAN]

\* The matching elements inside an overlay, as positions in the page.
InsideScope(page, root) ==
    SelectSeq([i \in 1..Len(page) |-> i], LAMBDA i : page[i] = root)

\* Variant of QueryElements: an empty scope is not re-queried on the page.
QueryElementsNoFallback(page, root, env) ==
    IF root # 0
    THEN IF ~env.root_ok THEN [ok |-> FALSE, elements |-> <<>>]
         ELSE [ok |-> TRUE, elements |-> InsideScope(page, root)]
    ELSE IF env.page_ok
         THEN [ok |-> TRUE, elements |-> [i \in 1..Len(page) |-> i]]
         ELSE [ok |-> FALSE, elements |-> <<>>]

\* The try block that queries the elements, the same in click_with_llm_only
\* and fill_with_llm: root.query_selector_all, then page.query_selector_all
\* when root is None or the scope gave nothing; ok is FALSE when a query raised.
QueryElements(page, root, env) ==
    LET whole == IF env.page_ok
                 THEN [ok |-> TRUE, elements |-> [i \in 1..Len(page) |-> i]]
                 ELSE [ok |-> FALSE, elements |-> <<>>]
    IN  IF root # 0
        THEN IF ~env.root_ok THEN [ok |-> FALSE, elements |-> <<>>]
             ELSE IF InsideScope(page, root) # <<>>
                  THEN [ok |-> TRUE, elements |-> InsideScope(page, root)]
                  ELSE whole
        ELSE whole

QueryInit ==
    /\ nSteps = 1 /\ stepNo = 0 /\ step = NoStep /\ pc = "plan"
    /\ FreshStep
    /\ nodes = <<>> /\ nodesQueryOk = TRUE /\ scopeRoot = 0 /\ scopePc = "idle"
    /\ clickEnv = AllReturn /\ clickPc = "idle"
    /\ TypeIdle
    /\ qPage \in QueryPages
    /\ qRoot \in 0..MaxOverlays
    /\ qEnv \in QueryEnvs
    /\ qResult = NoQuery
    /\ qPc = "ready"
    /\ TextIdle
    /\ LoginIdle

CallQueryElements ==
    /\ qPc = "ready"
    /\ qResult' = QueryElements(qPage, qRoot, qEnv)
    /\ qPc' = "done"
    /\ UNCHANGED <<nSteps, stepNo, step, pc>>
    /\ UNCHANGED stepVars
    /\ UNCHANGED <<nodes, nodesQueryOk, scopeRoot, scopePc, clickEnv, clickPc,
                   typeKind, typeEnv, typePc, qPage, qRoot, qEnv>>
    /\ UNCHANGED textVars
    /\ UNCHANGED loginVars

QueryNext == CallQueryElements

QuerySpec == QueryInit /\ [][QueryNext]_vars

\* ------------------------------------------------ the text functions on their own
\* Everything but the text function under study stands still.
RestIdle ==
    /\ nSteps = 1 /\ stepNo = 0 /\ step = NoStep /\ pc = "plan"
    /\ FreshStep
    /\ nodes = <<>> /\ nodesQueryOk = TRUE /\ scopeRoot = 0 /\ scopePc = "idle"
    /\ clickEnv = AllReturn /\ clickPc = "idle"
    /\ TypeIdle
    /\ QueryIdle
    /\ LoginIdle

RestUnchanged ==
    /\ UNCHANGED <<nSteps, stepNo, step, pc>>
    /\ UNCHANGED stepVars
    /\ UNCHANGED <<nodes, nodesQueryOk, scopeRoot, scopePc, clickEnv, clickPc,
                   typeKind, typeEnv, typePc, qPage, qRoot, qEnv, qResult, qPc>>
    /\ UNCHANGED loginVars

\* The same for _wait_for_login, which leaves the text functions alone too.
AllButLoginUnchanged ==
    /\ UNCHANGED <<nSteps, stepNo, step, pc>>
    /\ UNCHANGED stepVars
    /\ UNCHANGED <<nodes, nodesQueryOk, scopeRoot, scopePc, clickEnv, clickPc,
                   typeKind, typeEnv, typePc, qPage, qRoot, qEnv, qResult, qPc>>
    /\ UNCHANGED textVars

\* The strings made of up to n pieces of a set of pieces.
RECURSIVE Phrases(_, _)
Phrases(pieces, n) ==
    IF n = 0 THEN {<<>>}
    ELSE LET shorter == Phrases(pieces, n - 1)
         IN  shorter \cup {p \o w : p \in shorter, w \in pieces}

\* Pieces of step descriptions of fill steps: the role keywords in several
\* cases, fragments that make a keyword only when put together, a blank.
RolePieces ==
    { <<"D","e","s","c","r","i","p","t","i","o","n">>,
      <<"S","U","M","M","A","R","Y">>,
      <<"n","a","m","e">>,
      <<"T","i","t","l","e">>,
      <<"n","a">>, <<"M","e">>, <<"t","i","t">>, <<" ">> }

RoleInit ==
    /\ RestIdle
    /\ txtDesc \in Phrases(RolePieces, MaxWords)
    /\ txtOut = "none"
    /\ txtPc = "ready"

\* The role inference at the head of fill_with_llm.
InferRole ==
    /\ txtPc = "ready"
    /\ txtOut' = TargetRole(txtDesc)
    /\ txtPc' = "done"
    /\ UNCHANGED txtDesc
    /\ RestUnchanged

RoleNext == InferRole

RoleSpec == RoleInit /\ [][RoleNext]_vars

\* Pieces of step descriptions that carry quotes: lone quotes of both kinds,
\* an empty pair, quoted texts of both kinds, plain text.
QuotePieces ==
    { <<"'">>, <<"\"">>, <<"'","'">>,
      <<"'","a","b","'">>, <<"\"","c","\"">>, <<"x"," ">> }

ExtractInit ==
    /\ RestIdle
    /\ txtDesc \in Phrases(QuotePieces, MaxWords)
    /\ txtOut = "none"
    /\ txtPc = "ready"

\* explicit_value = extract_value_from_description(step_description)
ExtractValue ==
    /\ txtPc = "ready"
    /\ txtOut' = extract_value_from_description(txtDesc)
    /\ txtPc' = "done"
    /\ UNCHANGED txtDesc
    /\ RestUnchanged

ExtractNext == ExtractValue

ExtractSpec == ExtractInit /\ [][ExtractNext]_vars

\* Pieces of step descriptions of click steps: finalize keywords whole and in
\* fragments, in several cases, and plain text.
FinalizePieces ==
    { <<"S","a">>,
      <<"V","E">>,
      <<"d">>,
      <<"D","o">>,
      <<"n","E">>,
      <<"S","U","B","M","I","T">>,
      <<"C","o","n","f","i","r","m">>,
      <<"f","i","n">>,
      <<"i","s","h">>,
      <<"C","o","m","p","l","e","t","e">>,
      <<"c","r","e","a","t">>,
      <<"e","d">>,
      <<"a","d","d">>,
      <<"x">>,
      <<" ">> }

\* Two collected candidates, the second inside .save-options.
SampleCandidates ==
    <<[index |-> 0, in_save_options |-> FALSE],
      [index |-> 1, in_save_options |-> TRUE]>>

FinalizeInit ==
    /\ RestIdle
    /\ txtDesc \in Phrases(FinalizePieces, MaxWords)
    /\ txtOut = "none"
    /\ txtPc = "ready"

\* finalize = is_finalize_step(step_description) and the narrowing it
\* switches on, on the sample candidates.
TestFinalize ==
    /\ txtPc = "ready"
    /\ txtOut' = [finalize |-> is_finalize_step(txtDesc),
                  kept     |-> Indices(NarrowForFinalize(SampleCandidates, <<0, 1>>,
                                                         txtDesc).candidates)]
    /\ txtPc' = "done"
    /\ UNCHANGED txtDesc
    /\ RestUnchanged

FinalizeNext == TestFinalize

FinalizeSpec == FinalizeInit /\ [][FinalizeNext]_vars

\* ------------------------------------------------- _wait_for_login on its own
\* What a call of _looks_logged_in does: it returns True, returns False, or
\* raises (its page.query_selector calls are not guarded).
PollOutcomes == {"yes", "no", "raise"}

\* Variant of AfterPoll: a poll that raises leaves the counter as it is.
AfterPollKeepsOnRaise(stable, outcome) ==
    IF outcome = "yes" THEN stable + 1
    ELSE IF outcome = "no" THEN 0
    ELSE stable

\* stable_logged_in after one poll: += 1 in the if branch, = 0 in the else
\* branch and in the except branch.
AfterPoll(stable, outcome) == IF outcome = "yes" THEN stable + 1 ELSE 0

LoginInit ==
    /\ nSteps = 1 /\ stepNo = 0 /\ step = NoStep /\ pc = "plan"
    /\ FreshStep
    /\ nodes = <<>> /\ nodesQueryOk = TRUE /\ scopeRoot = 0 /\ scopePc = "idle"
    /\ clickEnv = AllReturn /\ clickPc = "idle"
    /\ TypeIdle
    /\ QueryIdle
    /\ TextIdle
    /\ max_wait_seconds \in 0..MaxWait
    /\ loginI = 0
    /\ stable_logged_in = 0
    /\ polls = <<>>
    /\ loginPc = "loop"

\* One iteration of "for i in range(max_wait_seconds)": the poll, the
\* return when the counter reaches five, else wait_for_timeout(1000), which
\* is outside the try.
\*   wait_ok    page.wait_for_timeout(1000) returns
LoginIteration ==
    /\ loginPc = "loop" /\ loginI < max_wait_seconds
    /\ \E outcome \in PollOutcomes, wait_ok \in BOOLEAN :
        LET st == AfterPoll(stable_logged_in, outcome) IN
        /\ polls' = Append(polls, outcome)
        /\ stable_logged_in' = st
        /\ IF outcome = "yes" /\ st >= StableNeeded
           THEN loginPc' = "logged_in" /\ loginI' = loginI
           ELSE IF wait_ok
                THEN loginPc' = "loop" /\ loginI' = loginI + 1
                ELSE loginPc' = "raised" /\ loginI' = loginI
    /\ UNCHANGED max_wait_seconds
    /\ AllButLoginUnchanged

\* The loop is exhausted: "Timeout while waiting for login ... Continuing
\* anyway."
LoginTimeout ==
    /\ loginPc = "loop" /\ loginI = max_wait_seconds
    /\ loginPc' = "timed_out"
    /\ UNCHANGED <<max_wait_seconds, loginI, stable_logged_in, polls>>
    /\ AllButLoginUnchanged

LoginNext == LoginIteration \/ LoginTimeout

\* The coroutine is run to its end by the event loop: every awaited call
\* returns or raises.
LoginSpec == LoginInit /\ [][LoginNext]_vars /\ WF_vars(LoginNext)

\* ================================================================== claims
InClickStep == step.action_type \in {"navigate", "click"}
InFillStep  == step.action_type = "fill"

\* Is s a prefix of t?
IsPrefix(s, t) == Len(s) <= Len(t) /\ \A i \in 1..Len(s) : s[i] = t[i]

\* C1: one click step makes at most 3 oracle requests and at most 3
\* robust_click calls; no round is open once 3 rounds have failed; and every
\* move inside the loop either ends the step or adds a request or a click, so
\* that the step ends after at most 6 moves.
C1_BoundedRounds ==
    /\ [](InClickStep =>
            /\ oracleCalls <= 3 /\ clickCalls <= 3
            /\ Len(clickedEls) = clickCalls
            /\ (Len(excluded_indices) >= 3 => pc \notin {"decide", "execute"}))
    /\ [][(pc \in {"decide", "execute"}) =>
            (\/ pc' \in {"capture", "aborted"}
             \/ oracleCalls' + clickCalls' > oracleCalls + clickCalls)]_vars

\* Three rounds of one step have each ended in an execution failure.
C1_ThreeFailures ==
    /\ InClickStep /\ pc = "capture"
    /\ Len(excluded_indices) = 3 /\ oracleCalls = 3 /\ clickCalls = 3

\* C2: when the index answered in a round is in the exclusion list, the round
\* ends the step: no robust_click call is made for it and the step function
\* returns, so that no further request is sent.
C2_ExcludedAborts ==
    [][(/\ pc = "decide"
        /\ lastResp'.kind \in {"index", "no_index"}
        /\ chosen' \in Range(excluded_indices))
       => (/\ pc' = "capture"
           /\ clickCalls' = clickCalls /\ clickedEls' = clickedEls
           /\ excluded_indices' = excluded_indices)]_vars

\* A step has ended on an answer naming an excluded index.
C2_ExcludedChosen ==
    /\ InClickStep /\ pc = "capture" /\ log = "excluded"
    /\ chosen \in Range(excluded_indices)
    /\ oracleCalls = clickCalls + 1

\* C3: the exclusion list is empty when the loop is entered, only grows, and
\* changes exactly when robust_click returns False, by the chosen index; each
\* request carries the exclusion list as it then is and the first 80 of the
\* candidate list, which stays the same from round to round.
C3_ExclusionList ==
    /\ [](InClickStep /\ pc = "decide" /\ oracleCalls = 0 => excluded_indices = <<>>)
    /\ [](InClickStep /\ pc = "execute" =>
            /\ payload.excluded_indices = excluded_indices
            /\ Len(payload.candidates) = Min(Len(candidates), 80)
            /\ IsPrefix(payload.candidates, candidates))
    /\ [][(pc \in {"decide", "execute"} /\ pc' # "plan") =>
            (/\ IsPrefix(excluded_indices, excluded_indices')
             /\ candidates' = candidates /\ handles' = handles
             /\ IF pc = "execute" /\ lastClick'.result = "false"
                THEN excluded_indices' = Append(excluded_indices, chosen)
                ELSE excluded_indices' = excluded_indices)]_vars

\* A third round has been requested with the two failed indices excluded.
C3_SecondRetrySent ==
    /\ InClickStep /\ pc = "execute"
    /\ Len(excluded_indices) = 2 /\ payload.excluded_indices = excluded_indices
    /\ excluded_indices[1] # excluded_indices[2]

\* C4 as stated: an element is acted on only if the chosen index is the index
\* of one of the candidates transmitted in the request.
C4_OnlyTransmitted ==
    pc \in {"execute", "fill_type"} =>
        chosen \in Range(Indices(payload.candidates))

\* C4 amended: in the click and in the fill path, an answered index that is
\* the index of no candidate of the step's candidate list ends the step: no
\* click, no typing, no further round.
C4_UnknownIndexAborts ==
    [][(/\ pc \in {"decide", "fill_decide"}
        /\ lastResp'.kind = "index"
        /\ \A i \in 1..Len(candidates) :
              candidates[i].index # lastResp'.chosen_index)
       => (/\ pc' = "capture" /\ log' = "not_in_candidates"
           /\ clickCalls' = clickCalls /\ clickedEls' = clickedEls
           /\ typed' = typed)]_vars

\* A fill step has ended on an index that no candidate carries, although the
\* element at that query position exists.
C4_UnknownIndexSeen ==
    /\ InFillStep /\ pc = "capture" /\ log = "not_in_candidates"
    /\ lastResp.kind = "index"
    /\ lastResp.chosen_index < Len(dom)
    /\ typed = <<>>

\* C5 as stated: after an answer that is not JSON, or is JSON without a
\* chosen_index, no element is clicked or typed into.
C5_MalformedIsTerminal ==
    lastResp.kind \in {"not_json", "not_object", "no_index"} =>
        pc \notin {"execute", "fill_type"}

\* C6 as stated: run_plan never stops while planned steps are left.
C6_PlanNeverAborted ==
    ~(pc = "aborted" /\ stepNo + 1 < nSteps)

\* C7 as stated: the tiers run in the order 1, 2, 3; a tier is started only
\* if the click action of the tier before it raised; so at most one tier
\* delivers the click; and False is returned exactly when no tier delivered.
C7_TiersExclusive ==
    clickPc = "done" =>
        /\ lastClick.attempted \in {<<1>>, <<1, 2>>, <<1, 2, 3>>}
        /\ \A t \in Range(lastClick.attempted) :
              t > 1 => (t - 1) \notin Range(lastClick.delivered)
        /\ Len(lastClick.delivered) <= 1
        /\ (lastClick.result = "false" <=> lastClick.delivered = <<>>)

C9_ReturnsTopmost ==
    scopePc = "done" /\ nodesQueryOk /\ nodes # <<>> =>
        /\ scopeRoot \in 1..Len(nodes)
        /\ \A j \in 1..Len(nodes) : ZOf(nodes[j]) <= ZOf(nodes[scopeRoot])
        /\ \A j \in 1..Len(nodes) :
              ZOf(nodes[j]) = ZOf(nodes[scopeRoot]) => j <= scopeRoot

\* The descriptions of Descriptions that name a finalize keyword.
FinalizeDescriptions == {DescSaveProject, DescClickDone}

\* C10: the candidate list of the rounds is the flagged part of the collected
\* list, in the same order and with the same descriptors, when the step is a
\* finalize step and some collected candidate is flagged; it is the collected
\* list otherwise.
C10_FinalizeNarrowing ==
    InClickStep /\ pc \in {"decide", "execute"} =>
        LET flagged == {j \in 1..Len(collected) : collected[j].in_save_options}
        IN  IF step.description \in FinalizeDescriptions /\ flagged # {}
            THEN /\ Len(candidates) = Cardinality(flagged)
                 /\ {candidates[j] : j \in 1..Len(candidates)}
                       = {collected[j] : j \in flagged}
                 /\ \A j \in 1..(Len(candidates) - 1) :
                       candidates[j].index < candidates[j + 1].index
            ELSE candidates = collected

\* A finalize step whose candidate list was narrowed to a proper part.
C10_Narrowed ==
    /\ InClickStep /\ pc = "decide"
    /\ step.description = DescClickDone
    /\ candidates # <<>> /\ Len(candidates) < Len(collected)


\* Position (from 1) in the collected list of the candidate with index x.
CollectedPos(x) == CHOOSE j \in 1..Len(collected) : collected[j].index = x

\* C11 as stated: every request carries at most 80 candidates, in collection
\* order, and none that was collected after the 80th, finalize steps included.
C11_NoneBeyond80thCollected ==
    (InClickStep \/ InFillStep) /\ oracleCalls > 0 =>
        /\ Len(payload.candidates) <= 80
        /\ \A j \in 1..(Len(payload.candidates) - 1) :
              payload.candidates[j].index < payload.candidates[j + 1].index
        /\ \A j \in 1..Len(payload.candidates) :
              CollectedPos(payload.candidates[j].index) <= 80

\* C11 amended: every request carries at most 80 candidates, in collection
\* order: the first 80 of the step's candidate list, which in a narrowed
\* finalize step is the list of the flagged candidates; when the list was not
\* narrowed none collected after the 80th is sent.
C11_First80OfCandidateList ==
    (InClickStep \/ InFillStep) /\ oracleCalls > 0 =>
        /\ Len(payload.candidates) <= 80
        /\ Len(payload.candidates) = Min(Len(candidates), 80)
        /\ \A j \in 1..Len(payload.candidates) :
              payload.candidates[j] = candidates[j]
        /\ \A j \in 1..(Len(payload.candidates) - 1) :
              payload.candidates[j].index < payload.candidates[j + 1].index
        /\ (candidates = collected =>
              \A j \in 1..Len(payload.candidates) :
                  payload.candidates[j] = collected[j])

\* A request was cut: more than 80 candidates, 80 sent.
C11_Truncated ==
    /\ InClickStep /\ oracleCalls > 0
    /\ Len(candidates) > 80 /\ Len(payload.candidates) = 80


\* C12: when the collection of a click or fill step yields no candidate (the
\* query found nothing, or every element found was dropped), the step function
\* returns at once: no oracle request, no click, no typing, no exception.  A
\* fill step that raised has not reached its collection (the wait in front of
\* it raised).
C12_EmptyCollectionIsNoOp ==
    (InClickStep \/ InFillStep) /\ (\A i \in 1..Len(dom) : ~dom[i].reads_ok) =>
        /\ oracleCalls = 0 /\ clickCalls = 0 /\ clickedEls = <<>> /\ typed = <<>>
        /\ payload = NoPayload
        /\ \/ pc = "capture"
           \/ pc = "aborted" /\ InFillStep /\ dom = <<>>

\* A step that found elements and dropped them all has returned.
C12_AllDropped ==
    /\ InFillStep /\ pc = "capture"
    /\ dom # <<>> /\ \A i \in 1..Len(dom) : ~dom[i].reads_ok


\* C13: a fill step has no retry loop: the oracle is asked at most once and
\* type_into_element is called at most once; once it has been called, whatever
\* it wrote, no decision and no typing follows in the step, and no round is
\* counted and no index excluded.
C13_FillHasNoRetry ==
    InFillStep =>
        /\ oracleCalls <= 1 /\ Len(typed) <= 1
        /\ attempt = 0 /\ excluded_indices = <<>> /\ clickCalls = 0
        /\ (typed # <<>> => pc \in {"capture", "aborted"} /\ oracleCalls = 1)

\* A fill step has ended after a typing in which every tier raised.
C13_TypingFailed ==
    InFillStep /\ pc = "capture" /\ Len(typed) = 1 /\ typed[1].wrote = "none"


\* The element-level fill tiers that type_into_element started.
ElementTiers(r) == {t \in Range(r.tried) : t # "keyboard"}

\* The element as type_into_element sees it.
SeenAsTextbox == typeEnv.reads /\ typeKind \in {"textbox", "input_textbox"}
SeenAsInput   == typeEnv.reads /\ typeKind \in {"input", "input_textbox"}

\* C14 as stated: exactly the first applicable tier is used, and the keyboard
\* stream is dispatched only to an element that is neither content-editable /
\* textbox-role nor an input / textarea.
C14_FirstApplicableTierOnly ==
    typePc = "done" =>
        LET r == typed[1] IN
        /\ typeKind \in {"textbox", "input_textbox"} => r.tried = <<"set_text">>
        /\ typeKind = "input" =>
              r.tried \in {<<"fill_type">>, <<"fill_type", "set_value">>}
        /\ typeKind = "other" => r.tried = <<"keyboard">>

\* C14: the tiers are started in the order text assignment, clear-and-type,
\* value property, keyboard stream, beginning with the first one applicable to
\* the element as its attributes were read; the first tier that returns ends
\* the call and is the one that wrote; a tier that raises hands over to the
\* next.  The keyboard stream is dispatched exactly when no element-level tier
\* returned: the element is neither kind, or its attributes could not be read,
\* or every element-level tier started has raised.
C14_FirstSucceedingTierWins ==
    typePc = "done" =>
        LET r == typed[1] IN
        /\ ("set_text" \in Range(r.tried)) = SeenAsTextbox
        /\ ("fill_type" \in Range(r.tried)) =
              (SeenAsInput /\ ~(SeenAsTextbox /\ typeEnv.set_text))
        /\ ("set_value" \in Range(r.tried)) =
              ("fill_type" \in Range(r.tried) /\ ~typeEnv.fill_type)
        /\ ("keyboard" \in Range(r.tried)) = (r.wrote \in {"keyboard", "none"})
        /\ r.wrote \in ElementTiers(r) => r.wrote = r.tried[Len(r.tried)]
        /\ r.wrote = "set_text" => typeEnv.set_text
        /\ r.wrote = "fill_type" => typeEnv.fill_type
        /\ r.wrote = "set_value" => typeEnv.set_value
        /\ r.wrote = "keyboard" => typeEnv.keyboard
        /\ r.wrote = "none" => ~typeEnv.keyboard
        /\ \A i \in 1..(Len(r.tried) - 1) :
              /\ r.tried[i] = "set_text" => ~typeEnv.set_text
              /\ r.tried[i] = "fill_type" => ~typeEnv.fill_type
              /\ r.tried[i] = "set_value" => ~typeEnv.set_value

\* The keyboard stream went to an input whose attributes were read, after the
\* clear-and-type and the value assignment both raised.
C14_KeyboardAfterFailedTiers ==
    /\ typePc = "done" /\ typeKind = "input" /\ typeEnv.reads
    /\ typed[1].tried = <<"fill_type", "set_value", "keyboard">>
    /\ typed[1].wrote = "keyboard"


\* The oracle's "value" is missing, not a string, empty or white space only.
BlankAnswer(v) ==
    v.vtype # "string" \/ \A i \in 1..Len(v.text) : v.text[i] \in Whitespace

\* C15: in a fill step whose answer parsed, a missing, non-string, empty or
\* white-space-only value is replaced by the fixed default of the role inferred
\* from the description, any other value is kept as it is; the value plays no
\* part in whether the step goes on to type; and type_into_element is never
\* given a blank value.
C15_BlankValueGetsRoleDefault ==
    InFillStep /\ lastResp.kind \in {"no_index", "index"} =>
        /\ BlankAnswer(lastResp.value) =>
              value = (CASE step.description = DescDescriptionName -> DefaultDescription
                         [] step.description = DescAddSummary -> DefaultSummary
                         [] OTHER -> DefaultName)
        /\ ~BlankAnswer(lastResp.value) => value = lastResp.value.text
        /\ \E i \in 1..Len(value) : value[i] \notin Whitespace
        /\ (pc \in {"fill_type", "capture", "aborted"}) =>
              ((typed # <<>> \/ pc = "fill_type") <=> chosen \in Range(Indices(candidates)))
        /\ \A k \in 1..Len(typed) : typed[k].value = value

\* A white-space-only value was answered and the role default was typed.
C15_DefaultTyped ==
    /\ InFillStep /\ pc = "capture" /\ Len(typed) = 1
    /\ lastResp.value = StringValue(<<"\t", " ", "\n">>)
    /\ step.description = DescAddSummary
    /\ typed[1].value = DefaultSummary


\* C16 as stated: when the oracle call fails in a click or fill step, by the
\* client construction or by the request, the step ends there without an
\* exception leaving it, with no click or typing after the failure and no
\* further request.  (A step that has candidates and is left by an exception
\* before any request, click or typing is one whose client construction raised.)
C16_OracleFailureStaysInStep ==
    (InClickStep \/ InFillStep) =>
        /\ lastResp.kind = "call_failed" =>
              /\ pc = "capture" /\ returned = "None"
              /\ oracleCalls = attempt + 1 /\ clickCalls = attempt /\ typed = <<>>
        /\ candidates # <<>> /\ oracleCalls = 0 => returned # "raised"

\* C17 as stated: a click step that ends after a successful click reports
\* success to its caller, and a click step that ends in any other way reports
\* failure.
C17_OutcomeReported ==
    InClickStep /\ pc = "capture" =>
        /\ log = "clicked" => returned = "success"
        /\ log # "clicked" => returned = "failure"


\* Nothing of a step function has happened in the step.
NoPageAction ==
    /\ dom = <<>> /\ candidates = <<>> /\ oracleCalls = 0 /\ payload = NoPayload
    /\ clickCalls = 0 /\ clickedEls = <<>> /\ typed = <<>> /\ returned = "pending"

\* C18: a navigate or click step is always somewhere in the click path and
\* never types; a fill step is always somewhere in the fill path and never
\* clicks through robust_click or counts a round; a wait step only delays (it
\* ends, or the delay raises); an explore step does nothing before its capture.
C18_RoutedByActionType ==
    /\ step.action_type \in {"navigate", "click"} =>
          /\ pc \in {"decide", "execute", "capture", "aborted"}
          /\ typed = <<>>
          /\ (pc \in {"capture", "aborted"}) => returned # "pending"
    /\ step.action_type = "fill" =>
          /\ pc \in {"fill_decide", "fill_type", "capture", "aborted"}
          /\ clickCalls = 0 /\ clickedEls = <<>> /\ attempt = 0
          /\ (pc \in {"capture", "aborted"}) => returned # "pending"
    /\ step.action_type = "wait" => pc \in {"capture", "aborted"} /\ NoPageAction
    /\ step.action_type = "explore" => pc = "capture" /\ NoPageAction
    /\ step.action_type \in ActionTypes \cup {"none"}
    /\ (pc \in {"decide", "execute"}) => step.action_type \in {"navigate", "click"}
    /\ (pc \in {"fill_decide", "fill_type"}) => step.action_type = "fill"

\* A navigate step has gone through the click path and clicked.
C18_NavigateClicked ==
    step.action_type = "navigate" /\ pc = "capture" /\ clickCalls = 1 /\ log = "clicked"


\* The positions of the page's matching elements that lie in the scope root.
ScopeMembers == {i \in 1..Len(qPage) : qPage[i] = qRoot}

\* C19: when the element query returns, then if a scope root exists and holds
\* at least one matching element the elements are exactly the matching
\* elements inside it, and otherwise (the scope holds none, or there is no
\* scope root) they are all the matching elements of the page; in document
\* order in both cases.
C19_ScopeFirstPageFallback ==
    qPc = "done" /\ qResult.ok =>
        /\ Range(qResult.elements) =
              (IF qRoot # 0 /\ ScopeMembers # {} THEN ScopeMembers
               ELSE 1..Len(qPage))
        /\ \A j \in 1..(Len(qResult.elements) - 1) :
              qResult.elements[j] < qResult.elements[j + 1]

\* A scope root exists, holds no matching element, and the elements of the
\* page outside it were returned.
C19_FellBackToPage ==
    /\ qPc = "done" /\ qResult.ok
    /\ qRoot # 0 /\ ScopeMembers = {} /\ Len(qPage) = 2
    /\ qResult.elements = <<1, 2>>


\* C20: in a click or fill step whose query returned, the collected list holds
\* one candidate for every element whose reads succeeded and none for the
\* others, each describing its own element, in the order of the query result:
\* a failing element is left out and the elements after it are still collected.
\* (Stated where the collection has just run, before the first request; the
\* step does not touch the collected list afterwards.)
C20_OnlyFailingElementsDropped ==
    (InClickStep \/ InFillStep) /\ oracleCalls = 0 =>
        /\ Len(collected) = Cardinality({i \in 1..Len(dom) : dom[i].reads_ok})
        /\ \A j \in 1..Len(collected) :
              /\ collected[j].index \in 0..(Len(dom) - 1)
              /\ dom[collected[j].index + 1].reads_ok
              /\ InFillStep => collected[j].tag = dom[collected[j].index + 1].kind
              /\ InClickStep => collected[j].in_save_options
                                  = dom[collected[j].index + 1].in_save_options
        /\ \A j \in 1..(Len(collected) - 1) :
              collected[j].index < collected[j + 1].index
        /\ candidates = collected =>
              /\ Len(handles) = Len(collected)
              /\ \A j \in 1..Len(collected) : handles[j] = collected[j].index

\* A fill step dropped the second of three elements and kept the third.
C20_KeptAfterDropped ==
    /\ InFillStep /\ pc = "fill_decide" /\ Len(dom) = 3
    /\ dom[1].reads_ok /\ ~dom[2].reads_ok /\ dom[3].reads_ok
    /\ Indices(collected) = <<0, 2>>


\* C21: get_active_scope_root always returns: None (0) when the overlay query
\* raised or found nothing, an overlay that was found otherwise.  An overlay
\* whose style read raised takes part in the comparison with z-index 0: when
\* a read raised, the overlay returned is the last one of largest z-index
\* among all found, the failed ones counted as 0.
C21_ScopeRootNeverRaises ==
    scopePc = "done" =>
        /\ scopeRoot \in 0..Len(nodes)
        /\ (~nodesQueryOk \/ nodes = <<>>) => scopeRoot = 0
        /\ (nodesQueryOk /\ nodes # <<>>) => scopeRoot \in 1..Len(nodes)
        /\ (nodesQueryOk /\ \E j \in 1..Len(nodes) : ~nodes[j].read_ok) =>
              /\ \A j \in 1..Len(nodes) :
                    (IF nodes[j].read_ok THEN nodes[j].z ELSE 0)
                       <= (IF nodes[scopeRoot].read_ok THEN nodes[scopeRoot].z ELSE 0)
              /\ \A j \in (scopeRoot + 1)..Len(nodes) :
                    (IF nodes[j].read_ok THEN nodes[j].z ELSE 0)
                       < (IF nodes[scopeRoot].read_ok THEN nodes[scopeRoot].z ELSE 0)

\* The read of the first overlay raised, the read of the second gave -1, and
\* the first, scored 0, was returned.
C21_FailedReadScoredZero ==
    /\ scopePc = "done" /\ nodesQueryOk /\ Len(nodes) = 2
    /\ ~nodes[1].read_ok /\ nodes[2].read_ok /\ nodes[2].z = -1
    /\ scopeRoot = 1


\* Does txtDesc, read without regard to case, hold the word at some place?
Mentions(word) ==
    \E k \in 1..(Len(txtDesc) - Len(word) + 1) :
        \A j \in 1..Len(word) : LowerChar(txtDesc[k + j - 1]) = word[j]

\* C22: the role is description exactly when the description mentions
\* "description"; summary exactly when it mentions "summary" and not
\* "description"; name exactly when it mentions "name" or "title" and neither
\* of the two before; generic exactly when it mentions none of the four; case
\* plays no part.
C22_RolePriority ==
    txtPc = "done" =>
        LET d == Mentions(<<"d","e","s","c","r","i","p","t","i","o","n">>)
            m == Mentions(<<"s","u","m","m","a","r","y">>)
            n == Mentions(<<"n","a","m","e">>)
            t == Mentions(<<"t","i","t","l","e">>)
        IN  /\ (txtOut = "description") = d
            /\ (txtOut = "summary") = (~d /\ m)
            /\ (txtOut = "name") = (~d /\ ~m /\ (n \/ t))
            /\ (txtOut = "generic") = (~d /\ ~m /\ ~n /\ ~t)

\* A description in capitals that names a title and a summary got the role
\* summary.
C22_SummaryBeforeTitle ==
    /\ txtPc = "done"
    /\ txtDesc = <<"T","i","t","l","e"," ","S","U","M","M","A","R","Y">>
    /\ txtOut = "summary"


\* txtDesc holds a quoted non-empty text from position i to position k: the
\* same quote character at both, and between them at least one character and
\* no quote of that kind.
QuotedSpan(i, k) ==
    /\ i + 1 < k /\ txtDesc[i] \in Quotes /\ txtDesc[k] = txtDesc[i]
    /\ \A j \in (i + 1)..(k - 1) : txtDesc[j] # txtDesc[i]

QuotedSpans ==
    {p \in (1..Len(txtDesc)) \X (1..Len(txtDesc)) : QuotedSpan(p[1], p[2])}

\* C23: a value is returned exactly when the description holds a quoted
\* non-empty text, and it is then the text of the quoted span that opens
\* leftmost, of whichever quote kind.
C23_FirstQuotedText ==
    txtPc = "done" =>
        /\ txtOut.found = (QuotedSpans # {})
        /\ txtOut.found =>
              \E p \in QuotedSpans :
                  /\ \A r \in QuotedSpans : p[1] <= r[1]
                  /\ txtOut.text = SubSeq(txtDesc, p[1] + 1, p[2] - 1)
                  /\ txtOut.text # <<>>
        /\ ~txtOut.found => txtOut = NoneValue

\* A double-quoted text in front of a single-quoted one was returned.
C23_DoubleBeforeSingle ==
    /\ txtPc = "done"
    /\ txtDesc = <<"\"","c","\"","'","a","b","'">>
    /\ txtOut = [found |-> TRUE, text |-> <<"c">>]


\* C24: is_finalize_step is true exactly when the description, read without
\* regard to case, holds one of save, saved, submit, confirm, finish, done,
\* complete, completed, created, added at some place, inside a longer word or
\* not; and a description that holds none of them leaves the candidate list
\* as collected.
C24_FinalizeKeywordMatch ==
    txtPc = "done" =>
        /\ txtOut.finalize =
              ( Mentions(<<"s","a","v","e">>)
              \/ Mentions(<<"s","a","v","e","d">>)
              \/ Mentions(<<"s","u","b","m","i","t">>)
              \/ Mentions(<<"c","o","n","f","i","r","m">>)
              \/ Mentions(<<"f","i","n","i","s","h">>)
              \/ Mentions(<<"d","o","n","e">>)
              \/ Mentions(<<"c","o","m","p","l","e","t","e">>)
              \/ Mentions(<<"c","o","m","p","l","e","t","e","d">>)
              \/ Mentions(<<"c","r","e","a","t","e","d">>)
              \/ Mentions(<<"a","d","d","e","d">>))
        /\ ~txtOut.finalize => txtOut.kept = <<0, 1>>
        /\ txtOut.finalize => txtOut.kept = <<1>>

\* "added" inside a longer word is a finalize keyword.
C24_KeywordInsideWord ==
    /\ txtPc = "done"
    /\ txtDesc = <<"x","a","d","d","e","d">>
    /\ txtOut.finalize


\* C25 as stated: in a fill step whose description carries a quoted value,
\* that value is what is typed, whatever the oracle answered.
C25_ExplicitValueTyped ==
    InFillStep /\ extract_value_from_description(step.description).found =>
        \A k \in 1..Len(typed) :
            typed[k].value = extract_value_from_description(step.description).text


\* C26: throughout a click or fill step candidates and handles have the same
\* length, the handle at each position is the element at the query position
\* that the candidate's index names, and the candidate describes that
\* element; the element handed to robust_click or to type_into_element is the
\* element at the query position the oracle chose.
C26_HandlesMatchCandidates ==
    /\ []((InClickStep \/ InFillStep) =>
            /\ Len(handles) = Len(candidates)
            /\ \A j \in 1..Len(candidates) :
                  /\ handles[j] = candidates[j].index
                  /\ handles[j] \in 0..(Len(dom) - 1)
                  /\ InClickStep => candidates[j].in_save_options
                                      = dom[handles[j] + 1].in_save_options
                  /\ InFillStep => candidates[j].tag = dom[handles[j] + 1].kind
            /\ \A k \in 1..Len(typed) : typed[k].el = chosen)
    /\ [][(pc = "execute") =>
            (/\ lastClick'.el = chosen
             /\ clickedEls' = Append(clickedEls, chosen)
             /\ chosen \in Range(Indices(candidates)))]_vars
    /\ [][(pc = "fill_type") =>
            (/\ typed' = Append(typed, typed'[Len(typed')])
             /\ typed'[Len(typed')].el = chosen
             /\ chosen \in Range(Indices(candidates)))]_vars

\* In a finalize step the first element was dropped by a read failure, the
\* second was narrowed away, and the third, chosen by its index 2, was clicked.
C26_ClickedAfterDropAndNarrowing ==
    /\ InClickStep /\ pc = "capture" /\ log = "clicked"
    /\ Len(dom) = 3 /\ Indices(collected) = <<1, 2>> /\ Indices(candidates) = <<2>>
    /\ chosen = 2 /\ lastClick.el = 2


\* C27: in a click step the elements handed to robust_click, round after
\* round, are pairwise distinct; the exclusion list holds, in order, those of
\* them whose click failed; and every excluded index is the index of a
\* candidate of the step.
C27_NoCandidateClickedTwice ==
    InClickStep =>
        /\ Len(clickedEls) = clickCalls /\ clickCalls <= 3
        /\ \A i \in 1..Len(clickedEls) : \A k \in 1..Len(clickedEls) :
              i # k => clickedEls[i] # clickedEls[k]
        /\ Len(excluded_indices) <= Len(clickedEls)
        /\ \A i \in 1..Len(excluded_indices) :
              /\ excluded_indices[i] = clickedEls[i]
              /\ \E j \in 1..Len(candidates) : candidates[j].index = excluded_indices[i]

\* Three rounds have clicked the candidates 2, 0 and 1, each without success.
C27_ThreeDistinctClicks ==
    /\ InClickStep /\ pc = "capture"
    /\ clickedEls = <<2, 0, 1>> /\ excluded_indices = <<2, 0, 1>>


\* C28: when robust_click returns True the step function returns in the same
\* step of the run: no request follows, no other element is clicked, the
\* exclusion list stays as it was; so a click step has at most one click that
\* robust_click reported as successful, and it is its last.
C28_SuccessEndsStep ==
    /\ [][(pc = "execute" /\ lastClick'.result = "true") =>
            (/\ pc' = "capture" /\ returned' = "None"
             /\ excluded_indices' = excluded_indices
             /\ oracleCalls' = oracleCalls
             /\ attempt' = attempt)]_vars
    /\ [](InClickStep /\ lastClick.result = "true" =>
            /\ pc = "capture"
            /\ clickCalls = Len(excluded_indices) + 1
            /\ oracleCalls = clickCalls)
    /\ [](InClickStep => clickCalls - Len(excluded_indices) \in {0, 1})

\* The click of the second round succeeded and the step ended with one index
\* excluded.
C28_SucceededInSecondRound ==
    /\ InClickStep /\ pc = "capture" /\ lastClick.result = "true"
    /\ clickCalls = 2 /\ Len(excluded_indices) = 1 /\ oracleCalls = 2


\* The number of polls at the end of the history that looked logged in.
TrailingYes ==
    CHOOSE n \in 0..Len(polls) :
        /\ \A j \in (Len(polls) - n + 1)..Len(polls) : polls[j] = "yes"
        /\ n = Len(polls) \/ polls[Len(polls) - n] # "yes"

\* C29: _wait_for_login reports the logged-in state only when the last five
\* polls in a row looked logged in, and does so at the first such poll; the
\* counter is the number of polls that looked logged in since the last poll
\* that did not or that raised; no more than max_wait_seconds polls are made,
\* the timeout is reached after exactly that many, and the wait always ends:
\* logged in, timed out, or by an exception of the delay between two polls.
C29_LoginWaitBounded ==
    /\ [](loginPc # "idle" =>
            /\ stable_logged_in = TrailingYes
            /\ Len(polls) <= max_wait_seconds
            /\ (loginPc = "logged_in") =>
                  /\ Len(polls) >= 5
                  /\ \A j \in (Len(polls) - 4)..Len(polls) : polls[j] = "yes"
            /\ (loginPc # "logged_in") => TrailingYes < 5
            /\ (loginPc = "timed_out") => Len(polls) = max_wait_seconds
            /\ (loginPc = "loop") => Len(polls) = loginI)
    /\ (loginPc = "loop" ~> loginPc \in {"logged_in", "timed_out", "raised"})

\* Four polls looked logged in, the fifth raised, and the five after it
\* looked logged in.
C29_LoggedInAfterReset ==
    /\ loginPc = "logged_in" /\ Len(polls) = 7
    /\ polls[1] = "yes" /\ polls[2] = "raise"

====
